---- MODULE Spec2Model ----
(***************************************************************************)
(* A model of nkms.client.Client: path-derived key hierarchy, the          *)
(* versioned header/container codec, encrypt/decrypt and the policy        *)
(* placeholders.  Byte strings are sequences of integers 0..255; Python's  *)
(* None is the one-element sequence <<-1>>, which is no byte string.       *)
(***************************************************************************)
EXTENDS Integers, Sequences, FiniteSets, TLC

VARIABLES _priv_key, _pub_key, storage, res, derived

vars == <<_priv_key, _pub_key, storage, res, derived>>

(* ------------------------------ bounds -------------------------------- *)
\* longest path given to encrypt / decrypt / encrypt_key; longest path given to
\* _split_path alone; most blobs in a header; longest prefix given to
\* _derive_path_key
MaxPathLen == 3
MaxSplitLen == 4
MaxKeys == 2
MaxPrefixLen == 2

(* --------------------------- program constants ------------------------ *)
KEY_LENGTH == 148
SEP == 47
DATA_KEY_LEN == 32
DEFAULT_VERSION == 100
PREALPHA_LIMIT == 1000

None == <<-1>>

(* ------------------------------ byte helpers -------------------------- *)
Fill(n, b) == [i \in 1..n |-> b]

SeqsUpTo(S, n) == UNION {[1..k -> S] : k \in 0..n}

RECURSIVE Concat(_)
Concat(list) ==
  IF list = <<>> THEN <<>> ELSE Head(list) \o Concat(Tail(list))

\* int.to_bytes(4, byteorder='big')
to_bytes4(n) ==
  << (n \div 16777216) % 256, (n \div 65536) % 256, (n \div 256) % 256, n % 256 >>

\* int.from_bytes(bs, byteorder='big'), bs of any length (b'' gives 0)
RECURSIVE from_bytes(_)
from_bytes(bs) ==
  IF bs = <<>> THEN 0
  ELSE 256 * from_bytes(SubSeq(bs, 1, Len(bs) - 1)) + bs[Len(bs)]

\* BytesIO.read(n) at offset pos: at most n bytes, fewer at the end of the buffer
Read(buf, pos, n) ==
  SubSeq(buf, pos + 1, IF pos + n > Len(buf) THEN Len(buf) ELSE pos + n)

(* ------------------------------ path splitting ------------------------ *)
HasSep(s) == \E i \in 1..Len(s) : s[i] = SEP

FirstSep(s) == CHOOSE i \in 1..Len(s) : s[i] = SEP /\ \A j \in 1..(i - 1) : s[j] # SEP

\* bytes.split(b'/')
RECURSIVE Split(_)
Split(s) ==
  IF ~HasSep(s) THEN <<s>>
  ELSE <<SubSeq(s, 1, FirstSep(s) - 1)>> \o Split(SubSeq(s, FirstSep(s) + 1, Len(s)))

\* b'/'.join(list)
RECURSIVE Join(_)
Join(list) ==
  IF list = <<>> THEN <<>>
  ELSE IF Len(list) = 1 THEN list[1]
  ELSE list[1] \o <<SEP>> \o Join(Tail(list))

split_path_no_sentinel(path) ==
  LET dirs == Split(path)
  IN  [i \in 1..Len(dirs) |-> Join(SubSeq(dirs, 1, i))]

_split_path(path) ==
  IF path = <<SEP>> THEN << <<>> >>
  ELSE LET dirs == Split(path)
       IN  [i \in 1..Len(dirs) |-> Join(SubSeq(dirs, 1, i))]

(* ------------------------------ results ------------------------------- *)
\* A call either returns a value or raises; err = "none" means it returned.
NoErr == "none"

(* ------------------------------ msgpack ------------------------------- *)
\* msgpack.dumps(bytes): the bin 8 / bin 16 / bin 32 envelope
msgpack_dumps(bs) ==
  IF Len(bs) < 256 THEN <<196, Len(bs)>> \o bs
  ELSE IF Len(bs) < 65536 THEN <<197, Len(bs) \div 256, Len(bs) % 256>> \o bs
  ELSE <<198>> \o to_bytes4(Len(bs)) \o bs

BinLenBytes(marker) == IF marker = 196 THEN 1 ELSE IF marker = 197 THEN 2 ELSE 4

\* msgpack.loads(packed): the payload of one bin object; incomplete input and
\* trailing bytes are errors, any other object is not a byte string
msgpack_loads(packed) ==
  IF packed = <<>> THEN [err |-> "UnpackValueError", val |-> <<>>]
  ELSE IF packed[1] \notin {196, 197, 198} THEN [err |-> "TypeError", val |-> <<>>]
  ELSE LET w == BinLenBytes(packed[1])
       IN  IF Len(packed) < 1 + w THEN [err |-> "UnpackValueError", val |-> <<>>]
           ELSE LET n == from_bytes(SubSeq(packed, 2, 1 + w))
                IN  IF Len(packed) < 1 + w + n
                      THEN [err |-> "UnpackValueError", val |-> <<>>]
                    ELSE IF Len(packed) > 1 + w + n
                      THEN [err |-> "ExtraData", val |-> <<>>]
                    ELSE [err |-> NoErr, val |-> SubSeq(packed, 2 + w, 1 + w + n)]

(* ------------------------------ header codec -------------------------- *)
build_header_no_version_check(enc_keys, version) ==
  LET header == msgpack_dumps(to_bytes4(version) \o to_bytes4(Len(enc_keys))
                              \o Concat(enc_keys))
  IN  [err |-> NoErr, header |-> header, length |-> Len(header)]

build_header_reversed(enc_keys, version) ==
  IF version < PREALPHA_LIMIT
    THEN LET rev == [i \in 1..Len(enc_keys) |-> enc_keys[Len(enc_keys) + 1 - i]]
             header == msgpack_dumps(to_bytes4(version) \o to_bytes4(Len(enc_keys))
                                     \o Concat(rev))
         IN  [err |-> NoErr, header |-> header, length |-> Len(header)]
    ELSE [err |-> "UnboundLocalError", header |-> <<>>, length |-> 0]

\* Client._build_header: `header` is only bound in the version < 1000 branch
_build_header(enc_keys, version) ==
  IF version < PREALPHA_LIMIT
    THEN IF version < 0
           THEN [err |-> "OverflowError", header |-> <<>>, length |-> 0]
           ELSE LET header == msgpack_dumps(to_bytes4(version)
                                            \o to_bytes4(Len(enc_keys))
                                            \o Concat(enc_keys))
                IN  [err |-> NoErr, header |-> header, length |-> Len(header)]
    ELSE [err |-> "UnboundLocalError", header |-> <<>>, length |-> 0]

\* position of the stream after reading n bytes at pos
Advance(buf, pos, n) == IF pos + n > Len(buf) THEN Len(buf) ELSE pos + n

\* Client._read_header: `enc_keys` is only bound in the version < 1000 branch;
\* every read is a BytesIO.read, which returns what is left when short
_read_header(header) ==
  LET u == msgpack_loads(header)
  IN  IF u.err # NoErr THEN [err |-> u.err, version |-> 0, enc_keys |-> <<>>]
      ELSE LET buf == u.val
               version == from_bytes(Read(buf, 0, 4))
               p1 == Advance(buf, 0, 4)
               num_keys == from_bytes(Read(buf, p1, 4))
               p2 == Advance(buf, p1, 4)
           IN  IF version < PREALPHA_LIMIT
                 THEN [err |-> NoErr, version |-> version,
                       enc_keys |-> [i \in 1..num_keys |->
                          Read(buf, Advance(buf, p2, KEY_LENGTH * (i - 1)), KEY_LENGTH)]]
                 ELSE [err |-> "UnboundLocalError", version |-> version,
                       enc_keys |-> <<>>]

(* ------------------------------ hash ---------------------------------- *)
\* sha3.keccak_256(x).digest(): 32 bytes, a function of every byte of x and of
\* its length.  The digest is a folding checksum, which is collision-free on
\* the inputs of this model (HashCollisionFree); the claims read it only as
\* a deterministic, collision-free map to 32 bytes.
At(x, i) == IF i <= Len(x) THEN x[i] ELSE 0

keccak_256(x) ==
  [j \in 1..32 |-> (At(x, j) + 3 * At(x, j + 32) + 5 * At(x, j + 64) + Len(x)) % 256]

(* ------------------- asymmetric capability (nkms.crypto.pre) ---------- *)
\* priv2pub: a one-to-one map from private keys to 33-byte public keys
priv2pub(priv) == <<4>> \o [i \in 1..Len(priv) |-> (7 * priv[i] + 1) % 256]

\* encrypt(pub, msg): a fixed-size blob that binds msg to pub
pre_encrypt(pub, msg) ==
  LET body == pub \o <<Len(msg)>> \o msg
  IN  body \o Fill(KEY_LENGTH - Len(body), 0)

\* decrypt(priv, blob): msg when blob was made for priv's public key; under any
\* other private key a garbage string of garbage_len bytes (the scheme does not
\* authenticate); a blob of the wrong size cannot be deserialized
pre_decrypt(priv, blob, garbage_len) ==
  IF Len(blob) # KEY_LENGTH THEN [err |-> "PREDecodeError", val |-> <<>>]
  ELSE IF SubSeq(blob, 1, 33) = priv2pub(priv)
    THEN [err |-> NoErr, val |-> SubSeq(blob, 35, 34 + blob[34])]
    ELSE [err |-> NoErr, val |-> Fill(garbage_len, 238)]

\* rekey(privA, pubB): a re-encryption token
pre_rekey(priv, pub) == <<82>> \o priv2pub(priv) \o pub

(* ------------------- symmetric capability (nkms.crypto.block) --------- *)
NONCE_LEN == 24

\* Cipher(key).encrypt(data): nonce, then an authenticated box bound to key
symm_encrypt(key, data) == Fill(NONCE_LEN, 0) \o key \o data

\* Cipher(key).decrypt(edata): fails when key is no 32-byte key or when the
\* box was not made under key
symm_decrypt(key, edata) ==
  IF key = None \/ Len(key) # DATA_KEY_LEN THEN [err |-> "CipherKeyError", val |-> <<>>]
  ELSE IF Len(edata) < NONCE_LEN + DATA_KEY_LEN
            \/ SubSeq(edata, NONCE_LEN + 1, NONCE_LEN + DATA_KEY_LEN) # key
    THEN [err |-> "AuthenticationError", val |-> <<>>]
    ELSE [err |-> NoErr, val |-> SubSeq(edata, NONCE_LEN + DATA_KEY_LEN + 1, Len(edata))]

(* ------------------------------ Client -------------------------------- *)
derive_path_key_private_only(path, is_pub) == keccak_256(_priv_key \o path)

_derive_path_key(path, is_pub) ==
  LET key == keccak_256(_priv_key \o path)
  IN  IF is_pub THEN priv2pub(key) ELSE key

Falsy(b) == b = None \/ b = <<>>

encrypt_key_full_path_only(key, pubkey, path) ==
  IF path # None
    THEN << pre_encrypt(_derive_path_key(path, TRUE), key) >>
    ELSE pre_encrypt(IF Falsy(pubkey) THEN _pub_key ELSE pubkey, key)

\* Client.encrypt_key: a list of blobs, one per subpath, when path is given
\* (each made by the recursive call with pubkey = the derived public key and
\* no path); one blob under pubkey or the master public key otherwise
encrypt_key(key, pubkey, path) ==
  IF path # None
    THEN LET subpaths == _split_path(path)
         IN  [i \in 1..Len(subpaths) |->
                pre_encrypt(_derive_path_key(subpaths[i], TRUE), key)]
    ELSE pre_encrypt(IF Falsy(pubkey) THEN _pub_key ELSE pubkey, key)

decrypt_key_master_only(enc_key, path, garbage_len) ==
  pre_decrypt(_priv_key, enc_key, garbage_len)

\* Client.decrypt_key
decrypt_key(enc_key, path, garbage_len) ==
  LET priv_key == IF path # None THEN _derive_path_key(path, FALSE) ELSE _priv_key
  IN  pre_decrypt(priv_key, enc_key, garbage_len)

\* Client.encrypt_bulk / Client.decrypt_bulk
encrypt_bulk(data, key) == symm_encrypt(key, data)

decrypt_bulk(edata, key) == symm_decrypt(key, edata)

\* Client.encrypt, with the random data key as an input
encrypt(data, path, data_key) ==
  LET ciphertext == msgpack_dumps(encrypt_bulk(data, data_key))
      enc_keys == IF path # None THEN encrypt_key(data_key, None, path)
                  ELSE << encrypt_key(data_key, None, path) >>
      h == _build_header(enc_keys, DEFAULT_VERSION)
  IN  to_bytes4(h.length) \o h.header \o ciphertext

RECURSIVE last_valid_key(_, _, _, _, _)
last_valid_key(enc_keys, path, garbage, i, found) ==
  IF i > Len(enc_keys) THEN [err |-> NoErr, valid_key |-> found, tried |-> i - 1]
  ELSE LET dec_key == decrypt_key(enc_keys[i], path, garbage[i])
       IN  IF dec_key.err # NoErr
             THEN [err |-> dec_key.err, valid_key |-> None, tried |-> i]
           ELSE last_valid_key(enc_keys, path, garbage, i + 1,
                               IF Len(dec_key.val) = DATA_KEY_LEN THEN dec_key.val
                               ELSE found)

find_valid_key_no_break(enc_keys, path, garbage, i) ==
  last_valid_key(enc_keys, path, garbage, i, None)

\* The candidate-key loop of Client.decrypt from index i on: the first unwrap
\* result of 32 bytes ends the loop; an unwrap that raises ends the call.
\* garbage[i] is the length of the i-th unwrap result under a wrong key.
RECURSIVE find_valid_key(_, _, _, _)
find_valid_key(enc_keys, path, garbage, i) ==
  IF i > Len(enc_keys) THEN [err |-> NoErr, valid_key |-> None, tried |-> i - 1]
  ELSE LET dec_key == decrypt_key(enc_keys[i], path, garbage[i])
       IN  IF dec_key.err # NoErr
             THEN [err |-> dec_key.err, valid_key |-> None, tried |-> i]
           ELSE IF Len(dec_key.val) = DATA_KEY_LEN
             THEN [err |-> NoErr, valid_key |-> dec_key.val, tried |-> i]
           ELSE find_valid_key(enc_keys, path, garbage, i + 1)

Failed(e, n) == [err |-> e, plaintext |-> <<>>, valid_key |-> None, tried |-> 0,
                 num_keys |-> n]

\* the length of the msgpack object that starts after the length field
EnvelopeLength(edata) ==
  IF Len(edata) < 5 \/ edata[5] \notin {196, 197, 198} THEN 0
  ELSE 1 + BinLenBytes(edata[5])
         + from_bytes(SubSeq(edata, 6, 5 + BinLenBytes(edata[5])))

decrypt_self_delimiting(edata, path, garbage) ==
  LET header_length == EnvelopeLength(edata)
      p1 == Advance(edata, 0, 4)
      header == Read(edata, p1, header_length)
      p2 == Advance(edata, p1, header_length)
      h == _read_header(header)
      ciphertext == msgpack_loads(Read(edata, p2, Len(edata)))
  IN  IF h.err # NoErr THEN Failed(h.err, 0)
      ELSE IF ciphertext.err # NoErr THEN Failed(ciphertext.err, Len(h.enc_keys))
      ELSE LET k == find_valid_key(h.enc_keys, path, garbage, 1)
           IN  IF k.err # NoErr
                 THEN [Failed(k.err, Len(h.enc_keys)) EXCEPT !.tried = k.tried]
               ELSE LET plain == decrypt_bulk(ciphertext.val, k.valid_key)
                    IN  [err |-> plain.err, plaintext |-> plain.val,
                         valid_key |-> k.valid_key, tried |-> k.tried,
                         num_keys |-> Len(h.enc_keys)]

\* Client.decrypt
decrypt(edata, path, garbage) ==
  LET header_length == from_bytes(Read(edata, 0, 4))
      p1 == Advance(edata, 0, 4)
      header == Read(edata, p1, header_length)
      p2 == Advance(edata, p1, header_length)
      h == _read_header(header)
      ciphertext == msgpack_loads(Read(edata, p2, Len(edata)))
  IN  IF h.err # NoErr THEN Failed(h.err, 0)
      ELSE IF ciphertext.err # NoErr THEN Failed(ciphertext.err, Len(h.enc_keys))
      ELSE IF h.version >= PREALPHA_LIMIT
        THEN Failed("UnboundLocalError", Len(h.enc_keys))
      ELSE LET k == find_valid_key(h.enc_keys, path, garbage, 1)
           IN  IF k.err # NoErr
                 THEN [Failed(k.err, Len(h.enc_keys)) EXCEPT !.tried = k.tried]
               ELSE LET plain == decrypt_bulk(ciphertext.val, k.valid_key)
                    IN  [err |-> plain.err, plaintext |-> plain.val,
                         valid_key |-> k.valid_key, tried |-> k.tried,
                         num_keys |-> Len(h.enc_keys)]

\* Client.grant: computes the re-encryption key, drops it and returns None
grant(pubkey, path, policy) ==
  LET reenc_key == pre_rekey(_priv_key, pubkey)
  IN  [err |-> NoErr, val |-> None]

\* Client.revoke, Client.list_permissions, Client.remove: `pass`
revoke(pubkey, path) == [err |-> NoErr, val |-> None]

list_permissions(pubkey, path) == [err |-> NoErr, val |-> None]

remove(pubkey, path) == [err |-> NoErr, val |-> None]

(* ------------------------------ inputs -------------------------------- *)
\* gen_priv(): the master private key of one Client
MasterKeys == {Fill(32, 1), Fill(32, 2)}

\* utils.random(32): the data key of one encrypt call
DataKeys == {Fill(DATA_KEY_LEN, 17), Fill(DATA_KEY_LEN, 34)}

Payloads == {<<>>, <<104, 105>>}

\* paths of the path-splitting check: '/', 'a', 'b'
SplitPaths == SeqsUpTo({SEP, 97, 98}, MaxSplitLen)

\* paths given to encrypt / decrypt: '/', 'a', and no path
ClientPaths == SeqsUpTo({SEP, 97}, MaxPathLen) \cup {None}

\* prefixes given to _derive_path_key
Prefixes == SeqsUpTo({SEP, 97}, MaxPrefixLen)

\* wrapped-key blobs of the header checks
Blob(b) == [i \in 1..KEY_LENGTH |-> (b + i) % 256]

KeyLists == SeqsUpTo({Blob(0), Blob(200)}, MaxKeys)

Versions == {0, 100, 999, 1000, 1001, 70000}

PubKeys == {priv2pub(Fill(32, 9))}

(* ------------------------------ state --------------------------------- *)
NoStorage ==
  [data |-> <<>>, path |-> None, plain |-> <<>>, data_key |-> None, tamper |-> "empty"]

NoDerived == [path |-> None, val |-> None, between |-> FALSE]

\* Client.__init__: a fresh keypair; nothing stored, nothing called yet
Init ==
  /\ _priv_key \in MasterKeys
  /\ _pub_key = priv2pub(_priv_key)
  /\ storage = NoStorage
  /\ res = [op |-> "init"]
  /\ derived = NoDerived

(* ------------------------------ operations ---------------------------- *)
\* _split_path(path)
SplitPath(path) ==
  /\ res' = [op |-> "split_path", path |-> path, val |-> _split_path(path)]
  /\ UNCHANGED <<_priv_key, _pub_key, storage, derived>>

\* _derive_path_key(path, is_pub); `derived` keeps the first private derivation
\* and whether another operation has run since
DerivePathKey(path, is_pub) ==
  /\ res' = [op |-> "derive", path |-> path, is_pub |-> is_pub,
             val |-> _derive_path_key(path, is_pub)]
  /\ derived' = IF ~is_pub /\ derived = NoDerived
                  THEN [path |-> path, val |-> _derive_path_key(path, is_pub),
                        between |-> FALSE]
                  ELSE derived
  /\ UNCHANGED <<_priv_key, _pub_key, storage>>

\* an operation other than the derivation has run
Between ==
  derived' = IF derived = NoDerived THEN derived ELSE [derived EXCEPT !.between = TRUE]

\* encrypt(data, path): the container goes to the storage layer.  encrypt reads
\* nothing but its arguments and the master keypair, so one container per
\* behaviour shows every result it can give.
Encrypt(data, path, data_key) ==
  /\ storage.tamper = "empty"
  /\ storage' = [data |-> encrypt(data, path, data_key), path |-> path,
                 plain |-> data, data_key |-> data_key, tamper |-> "none"]
  /\ res' = [op |-> "encrypt", path |-> path]
  /\ Between
  /\ UNCHANGED <<_priv_key, _pub_key>>

NumPrefixes(path) == IF path = None THEN 1 ELSE Len(_split_path(path))

PrefixSet(path) ==
  IF path = None THEN {} ELSE {_split_path(path)[i] : i \in 1..Len(_split_path(path))}

GarbageLen(G, i) == IF i \in G THEN DATA_KEY_LEN ELSE DATA_KEY_LEN - 1

\* What the candidate-key loop can see of the unwraps under a wrong private
\* key: none gives 32 bytes, or position j is the first that does (the loop
\* ends there, so the lengths after j are never read).
GarbageChoices(n) == {{}} \cup {{j} : j \in 1..n}

\* decrypt(storage.data, path).  G is the set of header positions whose unwrap
\* under a wrong private key happens to give 32 bytes.
Decrypt(path, G) ==
  /\ storage.tamper # "empty"
  /\ LET garbage == [i \in 1..(MaxPathLen + 2) |-> GarbageLen(G, i)]
         r == decrypt(storage.data, path, garbage)
     IN  res' = [op |-> "decrypt", path |-> path, err |-> r.err,
                 plaintext |-> r.plaintext, valid_key |-> r.valid_key,
                 tried |-> r.tried, num_keys |-> r.num_keys]
  /\ Between
  /\ UNCHANGED <<_priv_key, _pub_key, storage>>

Grant(pubkey, path) ==
  /\ res' = [op |-> "grant", err |-> grant(pubkey, path, None).err,
             val |-> grant(pubkey, path, None).val]
  /\ Between
  /\ UNCHANGED <<_priv_key, _pub_key, storage>>

Revoke(pubkey, path) ==
  /\ res' = [op |-> "revoke", err |-> revoke(pubkey, path).err,
             val |-> revoke(pubkey, path).val]
  /\ Between
  /\ UNCHANGED <<_priv_key, _pub_key, storage>>

ListPermissions(pubkey, path) ==
  /\ res' = [op |-> "list_permissions", err |-> list_permissions(pubkey, path).err,
             val |-> list_permissions(pubkey, path).val]
  /\ Between
  /\ UNCHANGED <<_priv_key, _pub_key, storage>>

Remove(pubkey, path) ==
  /\ res' = [op |-> "remove", err |-> remove(pubkey, path).err,
             val |-> remove(pubkey, path).val]
  /\ Between
  /\ UNCHANGED <<_priv_key, _pub_key, storage>>

\* The client's life: containers are made and read back, policy calls in between
Next ==
  \/ \E d \in Payloads, p \in ClientPaths, k \in DataKeys : Encrypt(d, p, k)
  \/ \E p \in {storage.path} \cup PrefixSet(storage.path),
        G \in GarbageChoices(NumPrefixes(storage.path)) : Decrypt(p, G)
  \/ \E pk \in PubKeys, p \in {None, <<SEP, 97>>} : Grant(pk, p)
  \/ \E pk \in PubKeys, p \in {None, <<SEP, 97>>} : Revoke(pk, p)
  \/ \E pk \in PubKeys, p \in {None, <<SEP, 97>>} : ListPermissions(pk, p)
  \/ \E pk \in PubKeys, p \in {None, <<SEP, 97>>} : Remove(pk, p)

Spec == Init /\ [][Next]_vars

(* ---------------- key derivation amid the other operations ------------ *)
NextDerive ==
  \/ \E p \in Prefixes, is_pub \in BOOLEAN : DerivePathKey(p, is_pub)
  \/ \E p \in {None, <<SEP, 97>>}, k \in DataKeys : Encrypt(<<104, 105>>, p, k)
  \/ \E p \in {storage.path} \cup PrefixSet(storage.path),
        G \in GarbageChoices(NumPrefixes(storage.path)) : Decrypt(p, G)
  \/ \E pk \in PubKeys : Grant(pk, None)
  \/ \E pk \in PubKeys : Revoke(pk, None)
  \/ \E pk \in PubKeys : ListPermissions(pk, None)
  \/ \E pk \in PubKeys : Remove(pk, None)

SpecDerive == Init /\ [][NextDerive]_vars

(* ---------------- path splitting -------------------------------------- *)
NextSplit == \E p \in SplitPaths : SplitPath(p)

SpecSplit == Init /\ [][NextSplit]_vars

(* ---------------- key wrapping ---------------------------------------- *)
\* encrypt_key(key, path=path): the result is kept as a list (one blob when no
\* path is given)
EncryptKey(key, path) ==
  /\ res.op = "init"
  /\ res' = [op |-> "encrypt_key", key |-> key, path |-> path,
             enc_keys |-> IF path # None THEN encrypt_key(key, None, path)
                          ELSE << encrypt_key(key, None, path) >>]
  /\ UNCHANGED <<_priv_key, _pub_key, storage, derived>>

\* decrypt_key(enc_keys[idx], path=with_path) on the keys of the last encrypt_key
DecryptKey(idx, with_path, garbage_len) ==
  /\ res.op \in {"encrypt_key", "decrypt_key"}
  /\ idx \in 1..Len(res.enc_keys)
  /\ with_path \in (IF res.path = None THEN {None} ELSE PrefixSet(res.path))
  /\ res' = [op |-> "decrypt_key", key |-> res.key, path |-> res.path,
             enc_keys |-> res.enc_keys, idx |-> idx, with_path |-> with_path,
             err |-> decrypt_key(res.enc_keys[idx], with_path, garbage_len).err,
             val |-> decrypt_key(res.enc_keys[idx], with_path, garbage_len).val]
  /\ UNCHANGED <<_priv_key, _pub_key, storage, derived>>

NextKeys ==
  \/ \E k \in DataKeys, p \in ClientPaths : EncryptKey(k, p)
  \/ \E i \in 1..(MaxPathLen + 1), p \in ClientPaths,
        g \in {DATA_KEY_LEN, DATA_KEY_LEN - 1} : DecryptKey(i, p, g)

SpecKeys == Init /\ [][NextKeys]_vars

(* ---------------- header codec ---------------------------------------- *)
\* The header as it is on the wire (u32 version, u32 count, the blobs, in one
\* msgpack envelope), from a writer of any version, its payload cut to `cut` bytes
WirePayload(enc_keys, version) ==
  to_bytes4(version) \o to_bytes4(Len(enc_keys)) \o Concat(enc_keys)

WireHeader(enc_keys, version, cut) ==
  msgpack_dumps(SubSeq(WirePayload(enc_keys, version), 1, cut))

\* where a header payload is cut: inside and at the ends of every fixed read
Cuts(n) == {t \in 0..n : t <= 9 \/ (t - 8) % KEY_LENGTH \in {0, 1, KEY_LENGTH - 1}}

HeaderInputs ==
  {[op |-> "input", enc_keys |-> ks, version |-> v, cut |-> t] :
     ks \in KeyLists, v \in Versions, t \in Cuts(8 + KEY_LENGTH * MaxKeys)}

InitHeader ==
  /\ _priv_key \in MasterKeys
  /\ _pub_key = priv2pub(_priv_key)
  /\ storage = NoStorage
  /\ derived = NoDerived
  /\ res \in {i \in HeaderInputs : i.cut <= 8 + KEY_LENGTH * Len(i.enc_keys)}

Whole(i) == i.cut = 8 + KEY_LENGTH * Len(i.enc_keys)

\* _build_header(enc_keys, version)
BuildHeader ==
  /\ res.op = "input" /\ Whole(res)
  /\ LET r == _build_header(res.enc_keys, res.version)
     IN  res' = [op |-> "build_header", enc_keys |-> res.enc_keys,
                 version |-> res.version, err |-> r.err, header |-> r.header,
                 length |-> r.length]
  /\ UNCHANGED <<_priv_key, _pub_key, storage, derived>>

\* _read_header(header) on the header _build_header returned
ReadBuilt ==
  /\ res.op = "build_header" /\ res.err = NoErr
  /\ LET r == _read_header(res.header)
     IN  res' = [op |-> "read_built", enc_keys |-> res.enc_keys,
                 version |-> res.version, err |-> r.err, out_version |-> r.version,
                 out_keys |-> r.enc_keys]
  /\ UNCHANGED <<_priv_key, _pub_key, storage, derived>>

\* _read_header(header) on a header from the wire, whole or cut short
ReadWire ==
  /\ res.op = "input"
  /\ LET r == _read_header(WireHeader(res.enc_keys, res.version, res.cut))
     IN  res' = [op |-> "read_wire", enc_keys |-> res.enc_keys,
                 version |-> res.version, cut |-> res.cut, err |-> r.err,
                 out_version |-> r.version, out_keys |-> r.enc_keys]
  /\ UNCHANGED <<_priv_key, _pub_key, storage, derived>>

\* decrypt(container) on a container whose header comes whole from the wire
DecryptWire(data, data_key, G) ==
  /\ res.op = "input" /\ Whole(res)
  /\ LET header == WireHeader(res.enc_keys, res.version, res.cut)
         edata == to_bytes4(Len(header)) \o header
                    \o msgpack_dumps(encrypt_bulk(data, data_key))
         r == decrypt(edata, None, [i \in 1..(MaxKeys + 1) |-> GarbageLen(G, i)])
     IN  res' = [op |-> "decrypt_wire", enc_keys |-> res.enc_keys,
                 version |-> res.version, err |-> r.err, plaintext |-> r.plaintext,
                 valid_key |-> r.valid_key, tried |-> r.tried,
                 num_keys |-> r.num_keys]
  /\ UNCHANGED <<_priv_key, _pub_key, storage, derived>>

NextHeader ==
  \/ BuildHeader
  \/ ReadBuilt
  \/ ReadWire
  \/ \E d \in Payloads, k \in DataKeys, G \in GarbageChoices(MaxKeys) :
        DecryptWire(d, k, G)

SpecHeader == InitHeader /\ [][NextHeader]_vars

(* ---------------- containers damaged in storage ----------------------- *)
HeaderLength(data) == from_bytes(Read(data, 0, 4))

\* one byte of the 4-byte headerLength field is changed
TamperLength(b, v) ==
  /\ storage.tamper = "none"
  /\ b \in 1..4
  /\ v \in 0..255 /\ v # At(storage.data, b)
  /\ storage' = [storage EXCEPT !.data = [storage.data EXCEPT ![b] = v],
                                !.tamper = "length"]
  /\ res' = [op |-> "tamper"]
  /\ UNCHANGED <<_priv_key, _pub_key, derived>>

\* the container is cut to t bytes: inside the length field ("short") or
\* inside the header ("cut")
Truncate(t) ==
  /\ storage.tamper = "none"
  /\ t \in 0..(3 + HeaderLength(storage.data))
  /\ storage' = [storage EXCEPT !.data = SubSeq(storage.data, 1, t),
                                !.tamper = IF t < 4 THEN "short" ELSE "cut"]
  /\ res' = [op |-> "tamper"]
  /\ UNCHANGED <<_priv_key, _pub_key, derived>>

\* the values a byte of the length field is changed to: the ends of the range
\* and the two neighbours of the old value (the top byte stays below 2^7, the
\* largest length the model's integers hold)
TamperBytes(b, old) ==
  IF b = 1 THEN {1, 127} ELSE {0, 255, (old + 1) % 256, (old + 255) % 256}

NextTamper ==
  \/ \E p \in ClientPaths, k \in DataKeys : Encrypt(<<104, 105>>, p, k)
  \/ \E b \in 1..4 : \E v \in TamperBytes(b, At(storage.data, b)) : TamperLength(b, v)
  \/ \E t \in 0..5 \cup {3 + HeaderLength(storage.data)} : Truncate(t)
  \/ \E G \in GarbageChoices(NumPrefixes(storage.path)) : Decrypt(storage.path, G)

SpecTamper == Init /\ [][NextTamper]_vars

(* ---------------- candidate-key search ------------------------------- *)
\* the one blob encrypt_key makes for a path of one component, or for no path
WrappedFor(key, path) ==
  IF path = None THEN encrypt_key(key, None, None) ELSE encrypt_key(key, None, path)[1]

\* headers that mix, in any order, keys wrapped for the reader with foreign blobs
SearchInputsFor(p, k) ==
  {[op |-> "search_input", enc_keys |-> ks, path |-> p, data |-> d, data_key |-> k] :
     ks \in SeqsUpTo({WrappedFor(k, p), Blob(0)}, MaxKeys), d \in Payloads}

SearchInputs ==
  UNION {SearchInputsFor(p, k) : p \in {None, <<97>>}, k \in DataKeys}

InitSearch ==
  /\ _priv_key \in MasterKeys
  /\ _pub_key = priv2pub(_priv_key)
  /\ storage = NoStorage
  /\ derived = NoDerived
  /\ res \in SearchInputs

\* decrypt(container, path) on a container laid out as encrypt lays it out,
\* around the given wrapped keys.  G is the set of header positions whose
\* unwrap under a wrong private key gives 32 bytes.
DecryptList(G) ==
  /\ res.op = "search_input"
  /\ LET h == _build_header(res.enc_keys, DEFAULT_VERSION)
         edata == to_bytes4(h.length) \o h.header
                    \o msgpack_dumps(encrypt_bulk(res.data, res.data_key))
         r == decrypt(edata, res.path, [i \in 1..(MaxKeys + 1) |-> GarbageLen(G, i)])
     IN  res' = [op |-> "decrypt_list", enc_keys |-> res.enc_keys, path |-> res.path,
                 data |-> res.data, data_key |-> res.data_key, G |-> G,
                 err |-> r.err, plaintext |-> r.plaintext,
                 valid_key |-> r.valid_key, tried |-> r.tried,
                 num_keys |-> r.num_keys]
  /\ UNCHANGED <<_priv_key, _pub_key, storage, derived>>

NextSearch == \E G \in SUBSET (1..MaxKeys) : DecryptList(G)

SpecSearch == InitSearch /\ [][NextSearch]_vars

(* ====================================================================== *)
(*                               properties                               *)
(* ====================================================================== *)

\* keccak_256 as modelled has no collision among the inputs the model hashes
HashCollisionFree ==
  \A m1 \in MasterKeys, m2 \in MasterKeys :
    \A p1 \in ClientPaths \ {None}, p2 \in ClientPaths \ {None} :
      keccak_256(m1 \o p1) = keccak_256(m2 \o p2) => (m1 = m2 /\ p1 = p2)

\* the last call was decrypt on the undamaged container, with the path it was
\* encrypted under
RoundTripCall ==
  res.op = "decrypt" /\ storage.tamper = "none" /\ res.path = storage.path

\* C1: decrypt(encrypt(d, p), p) returns exactly d, for every payload d and
\* every path p (none, the root path, one component, several components).
C1_RoundTrip ==
  RoundTripCall => (res.err = NoErr /\ res.plaintext = storage.plain)

\* the i-th prefix of the path the wrapped keys were made for (None without path)
PrefixAt(path, i) == IF path = None THEN None ELSE _split_path(path)[i]

\* C2: every wrapped key of encrypt_key(k, path=p) unwraps to k under the
\* prefix of its own position, decrypt_key(ks[i], path=ps[i]) = k; with no path,
\* decrypt_key(encrypt_key(k)) = k under the master keypair.
C2_PerPrefixUnwrap ==
  (res.op = "decrypt_key" /\ res.with_path = PrefixAt(res.path, res.idx))
    => (res.err = NoErr /\ res.val = res.key)

C2_Witness ==
  /\ res.op = "decrypt_key"
  /\ res.path # None /\ Len(res.enc_keys) = 3
  /\ res.idx = 2 /\ res.with_path = PrefixAt(res.path, 2)
  /\ res.val = res.key

\* the header of the stored container, as _read_header gives it
StoredHeader == _read_header(Read(storage.data, 4, HeaderLength(storage.data)))

\* C3: the header of encrypt(d, p) holds exactly len(_split_path(p)) wrapped
\* keys, the i-th one made for the i-th (shallowest first) prefix, and exactly
\* one, made for the master public key, when p is omitted; no wrapped key
\* equals the plaintext data key.
C3_WrappedKeyCount ==
  storage.tamper = "none" =>
    /\ StoredHeader.err = NoErr
    /\ Len(StoredHeader.enc_keys) = NumPrefixes(storage.path)
    /\ \A i \in 1..Len(StoredHeader.enc_keys) :
         /\ StoredHeader.enc_keys[i] # storage.data_key
         /\ decrypt_key(StoredHeader.enc_keys[i], PrefixAt(storage.path, i),
                        DATA_KEY_LEN - 1).val = storage.data_key

C3_Witness ==
  /\ storage.tamper = "none" /\ storage.path # None
  /\ Len(StoredHeader.enc_keys) = 3
  /\ Len(_split_path(storage.path)) = 3

CountSep(s) == Cardinality({j \in 1..Len(s) : s[j] = SEP})

\* C4: for every path but the lone separator, _split_path returns one entry per
\* '/'-separated component, entry i being the part of the path up to the end
\* of its i-th component (so the last entry is the whole path); for the lone
\* separator it returns the one-element list [b''].
C4_PathSplitting ==
  res.op = "split_path" =>
    IF res.path = <<SEP>> THEN res.val = << <<>> >>
    ELSE /\ Len(res.val) = CountSep(res.path) + 1
         /\ res.val[Len(res.val)] = res.path
         /\ \A i \in 1..Len(res.val) :
              LET q == res.val[i]
              IN  /\ Len(q) <= Len(res.path)
                  /\ q = SubSeq(res.path, 1, Len(q))
                  /\ CountSep(q) = i - 1
                  /\ (Len(q) = Len(res.path) \/ res.path[Len(q) + 1] = SEP)

C4_Witness ==
  /\ res.op = "split_path"
  /\ res.path = <<SEP, 97, SEP, 98>>
  /\ res.val = << <<>>, <<SEP, 97>>, <<SEP, 97, SEP, 98>> >>

\* C5: for every version < 1000 and every list of 148-byte blobs (the empty
\* list too), _build_header returns (header, n) with n = len(header), and
\* _read_header of that header gives back the version and the blobs in order.
C5_HeaderRoundTrip ==
  /\ (res.op = "build_header" /\ res.version < PREALPHA_LIMIT)
       => (res.err = NoErr /\ res.length = Len(res.header))
  /\ res.op = "read_built"
       => (res.err = NoErr /\ res.out_version = res.version
           /\ res.out_keys = res.enc_keys)

C5_Witness ==
  /\ res.op = "read_built" /\ res.version = 999
  /\ Len(res.enc_keys) = 2 /\ res.enc_keys[1] # res.enc_keys[2]
  /\ res.out_keys = res.enc_keys

\* C6: _build_header with version >= 1000, and _read_header and decrypt on a
\* header whose version field is >= 1000, end in the failure of the
\* unhandled version branch; none returns a header, a key list or a plaintext.
C6_UnsupportedVersion ==
  (res.op \in {"build_header", "read_wire", "decrypt_wire"}
     /\ res.version >= PREALPHA_LIMIT
     /\ (res.op = "read_wire" => res.cut >= 4))
    => res.err = "UnboundLocalError"

C6_Witness ==
  /\ res.op = "decrypt_wire" /\ res.version = PREALPHA_LIMIT
  /\ Len(res.enc_keys) = 1
  /\ res.err = "UnboundLocalError"

DecodeErrors == {"UnpackValueError", "ExtraData"}

\* C7: when the header payload is shorter than a fixed read needs (4 version
\* bytes, 4 key-count bytes, 148 bytes for each declared key), _read_header
\* fails with a decode error, and never returns a blob shorter than 148 bytes.
C7_TruncatedHeaderFails ==
  /\ (res.op = "read_wire" /\ ~Whole(res) /\ res.version < PREALPHA_LIMIT)
       => res.err \in DecodeErrors
  /\ (res.op = "read_wire" /\ res.err = NoErr)
       => \A i \in 1..Len(res.out_keys) : Len(res.out_keys[i]) = KEY_LENGTH

\* C8: decrypt on a container whose headerLength field was altered, or that
\* has fewer than 4 bytes, or fewer than headerLength bytes after the length
\* field, ends in a decode error and returns no plaintext.
C8_CorruptLength ==
  (res.op = "decrypt" /\ storage.tamper \in {"length", "short", "cut"})
    => res.err \in DecodeErrors

C8_Witness ==
  /\ res.op = "decrypt" /\ storage.tamper = "length"
  /\ HeaderLength(storage.data) > Len(storage.data)
  /\ res.err = "ExtraData"

PolicyOps == {"grant", "revoke", "list_permissions", "remove"}

\* C9: every call of grant, revoke, list_permissions or remove ends in an
\* unimplemented error; none returns normally.
C9_PolicyUnimplemented ==
  res.op \in PolicyOps => res.err = "UnimplementedError"

\* C10: _derive_path_key(prefix, is_pub=False) is Keccak256(master private key
\* + prefix), the same bytes as at the first call whatever ran in between, and
\* _derive_path_key(prefix, is_pub=True) differs from it.
C10_DerivationStable ==
  res.op = "derive" =>
    /\ ~res.is_pub => /\ res.val = keccak_256(_priv_key \o res.path)
                      /\ (derived.path = res.path => res.val = derived.val)
    /\ res.is_pub => /\ res.val # keccak_256(_priv_key \o res.path)
                     /\ (derived.path = res.path => res.val # derived.val)

C10_Witness ==
  /\ res.op = "derive" /\ ~res.is_pub
  /\ derived.path = res.path /\ derived.between
  /\ storage.tamper = "none"
  /\ res.val = derived.val

\* the i-th unwrap of the last decrypt, had the loop reached it
Unwrap(i) == decrypt_key(res.enc_keys[i], res.path, GarbageLen(res.G, i))

\* the header positions whose unwrap result is exactly 32 bytes long
Hits == {i \in 1..Len(res.enc_keys) : Len(Unwrap(i).val) = DATA_KEY_LEN}

FirstHit == CHOOSE i \in Hits : \A j \in Hits : i <= j

\* C11: decrypt unwraps the wrapped keys in header order; the data key used for
\* the payload is the unwrap result of the lowest position whose result is 32
\* bytes long, and no later key is unwrapped; when no key gives 32 bytes (a
\* header with no keys too) the call fails and returns no plaintext.
C11_CandidateKeySearch ==
  res.op = "decrypt_list" =>
    /\ res.num_keys = Len(res.enc_keys)
    /\ IF Hits # {}
         THEN /\ res.valid_key = Unwrap(FirstHit).val
              /\ res.tried = FirstHit
              /\ res.err = decrypt_bulk(encrypt_bulk(res.data, res.data_key),
                                        Unwrap(FirstHit).val).err
              /\ res.plaintext = decrypt_bulk(encrypt_bulk(res.data, res.data_key),
                                              Unwrap(FirstHit).val).val
         ELSE /\ res.err # NoErr
              /\ res.valid_key = None
              /\ res.tried = Len(res.enc_keys)

C11_Witness ==
  /\ res.op = "decrypt_list"
  /\ Hits = {1, 2} /\ Unwrap(1).val # Unwrap(2).val
  /\ Unwrap(2).val = res.data_key
  /\ res.valid_key = Unwrap(1).val /\ res.tried = 1

====
